---- MODULE Spec2Model ----
(***************************************************************************)
(* Model of frontend/server.py: CORSHTTPRequestHandler (a                  *)
(* SimpleHTTPRequestHandler with CORS headers and the /api/versions        *)
(* endpoint) served by socketserver.TCPServer.serve_forever.               *)
(*                                                                         *)
(* Strings that the code inspects character by character are sequences:    *)
(* a directory name is the sequence of its code points, a URL path and a   *)
(* request line are sequences of text pieces.                              *)
(***************************************************************************)
EXTENDS Integers, Sequences, FiniteSets, TLC

VARIABLES
    csv_output,   \* kind of <root>/csv_output: "absent", "file" or "dir"
    children,     \* name -> kind of <root>/csv_output/<name>
    required,     \* name -> required file name -> kind of that entry in the child
    static,       \* static file -> its bytes, or NoFile
    serving,      \* TRUE while httpd.serve_forever() is running
    exchange,     \* the handler of the request just served, as it ended; Idle when
                  \* the tree has changed since, or before any request
    seen          \* what the polling client holds: the versions of its latest 200
                  \* answer of /api/versions before the tree last changed, or Never

vars == <<csv_output, children, required, static, serving, exchange, seen>>

-----------------------------------------------------------------------------
(* The filesystem under the Server Root                                    *)

Kinds == {"absent", "file", "dir"}

\* ".a", "B", "a", "aB", "ab" as code points
Names == { <<46, 97>>, <<66>>, <<97>>, <<97, 66>>, <<97, 98>> }

\* the names the environment of Spec creates: ".a", "B", "a"
TreeNames == { <<46, 97>>, <<66>>, <<97>> }

required_files == << "input_orders.csv", "input_riders.csv" >>

RequiredNames == { required_files[i] : i \in 1..Len(required_files) }

NoFile == << >>

Contents == { <<1>>, <<2, 3>> }

StaticFiles == { "api/versions" }

exists(kind) == kind # "absent"

is_dir(kind) == kind = "dir"

startswith_dot(name) == Len(name) > 0 /\ name[1] = 46

\* the entries of csv_output that iterdir() yields
Entries == { n \in Names : exists(children[n]) }

\* every order in which iterdir() may yield the entries
Orders(S) ==
    { o \in [1..Cardinality(S) -> S] : \A i, j \in 1..Cardinality(S) : o[i] = o[j] => i = j }

-----------------------------------------------------------------------------
(* str comparison and list.sort()                                          *)

RECURSIVE StrLess(_, _)
StrLess(a, b) ==
    IF Len(a) = 0 THEN Len(b) > 0
    ELSE IF Len(b) = 0 THEN FALSE
    ELSE IF a[1] # b[1] THEN a[1] < b[1]
    ELSE StrLess(Tail(a), Tail(b))

RECURSIVE Insert(_, _)
Insert(x, s) ==
    IF Len(s) = 0 THEN <<x>>
    ELSE IF StrLess(x, s[1]) THEN <<x>> \o s
    ELSE <<s[1]>> \o Insert(x, Tail(s))

\* the list left in the order of iteration
sort_skipped(s) == s

RECURSIVE sort(_)
sort(s) == IF Len(s) = 0 THEN << >> ELSE Insert(s[1], sort(Tail(s)))

-----------------------------------------------------------------------------
(* Requests                                                                *)

API_PATH == << "/api", "/versions" >>

Paths ==
    { API_PATH,
      << "/missing" >>,
      << "/api", "/versions", "?x=1" >>,
      << "/csv_output" >> }

requestline(path) == << "GET", " " >> \o path \o << " ", "HTTP/1.1" >>

\* needle in haystack, for str
RECURSIVE Contains(_, _)
Contains(haystack, needle) ==
    IF Len(haystack) < Len(needle) THEN FALSE
    ELSE IF SubSeq(haystack, 1, Len(needle)) = needle THEN TRUE
    ELSE Contains(Tail(haystack), needle)

\* Python values passed as *args
PyStr(v) == [t |-> "str", v |-> v]
PyInt(n) == [t |-> "int", v |-> n]

\* exceptions that may be faulted into the version scan
Faults == { "none", "iterdir", "exists" }

-----------------------------------------------------------------------------
(* One handler instance: BaseHTTPRequestHandler state of one request       *)

Idle == [path |-> << >>, buffer |-> << >>, wire |-> << >>, log |-> << >>,
         caught |-> "none", exc |-> "none"]

NewHandler(path) == [Idle EXCEPT !.path = path]

StatusLine(code, message) == [t |-> "status", code |-> code, k |-> "", v |-> message]
Header(k, v) == [t |-> "header", code |-> 0, k |-> k, v |-> v]
Blank == [t |-> "blank", code |-> 0, k |-> "", v |-> ""]
Body(data) == [t |-> "body", code |-> 0, k |-> "", v |-> data]

raise(h, e) == [h EXCEPT !.exc = e]

\* http.server log_message: one line on stderr
super_log_message(h, format, args) ==
    [h EXCEPT !.log = Append(@, [format |-> format, args |-> args])]

log_message(h, format, args) ==
    IF h.exc # "none" THEN h
    ELSE IF Len(args) = 0 THEN super_log_message(h, format, args)
    ELSE IF args[1].t # "str" THEN raise(h, "TypeError")
    ELSE IF ~Contains(args[1].v, API_PATH) THEN super_log_message(h, format, args)
    ELSE h

log_request(h, code) ==
    log_message(h, "\"%s\" %s %s",
                << PyStr(requestline(h.path)), PyStr(<< ToString(code) >>), PyStr(<< "-" >>) >>)

log_error(h, format, args) == log_message(h, format, args)

send_header(h, keyword, value) ==
    IF h.exc # "none" THEN h
    ELSE [h EXCEPT !.buffer = Append(@, Header(keyword, value))]

send_response(h, code, message) ==
    LET logged == log_request(h, code) IN
    IF logged.exc # "none" THEN logged
    ELSE send_header(
             send_header([logged EXCEPT !.buffer = Append(@, StatusLine(code, message))],
                         "Server", "SimpleHTTP"),
             "Date", "now")

\* BaseHTTPRequestHandler.end_headers: blank line, then flush the buffer
super_end_headers(h) ==
    IF h.exc # "none" THEN h
    ELSE [h EXCEPT !.wire = @ \o h.buffer \o << Blank >>, !.buffer = << >>]

\* the header block ended first, the CORS headers added after it
end_headers_late(h) ==
    send_header(
        send_header(
            send_header(super_end_headers(h), "Access-Control-Allow-Origin", "*"),
            "Access-Control-Allow-Methods", "GET, POST, OPTIONS"),
        "Access-Control-Allow-Headers", "Content-Type")

end_headers(h) ==
    super_end_headers(
        send_header(
            send_header(
                send_header(h, "Access-Control-Allow-Origin", "*"),
                "Access-Control-Allow-Methods", "GET, POST, OPTIONS"),
            "Access-Control-Allow-Headers", "Content-Type"))

write(h, data) ==
    IF h.exc # "none" THEN h
    ELSE [h EXCEPT !.wire = Append(@, Body(data))]

ErrorPage(code, message) == [kind |-> "html", code |-> code, message |-> message]

send_error(h, code, message) ==
    LET logged == log_error(h, "code %d, message %s", << PyInt(code), PyStr(<< message >>) >>)
        head   == send_header(
                      send_header(
                          send_header(send_response(logged, code, message),
                                      "Connection", "close"),
                          "Content-Type", "text/html;charset=utf-8"),
                      "Content-Length", "len(body)")
    IN  write(end_headers(head), ErrorPage(code, message))

-----------------------------------------------------------------------------
(* CORSHTTPRequestHandler.handle_versions_api                              *)

\* the scan of lines 31-40: the versions found, or raised when a filesystem
\* call raises; ScanLoop is the loop body for the entries still to come
ScanResult(versions) == [raised |-> FALSE, versions |-> versions]
ScanRaised == [raised |-> TRUE, versions |-> << >>]

RECURSIVE ScanLoop(_, _, _)
ScanLoop(order, versions, fault) ==
    IF Len(order) = 0 THEN ScanResult(versions)
    ELSE LET item == order[1] IN
         IF is_dir(children[item]) /\ ~startswith_dot(item)
         THEN IF fault = "exists" THEN ScanRaised
              ELSE IF \A i \in 1..Len(required_files) : exists(required[item][required_files[i]])
                   THEN ScanLoop(Tail(order), Append(versions, item), fault)
                   ELSE ScanLoop(Tail(order), versions, fault)
         ELSE ScanLoop(Tail(order), versions, fault)

\* iterdir() without the exists() and is_dir() guard of line 34
Scan_unguarded(order, fault) ==
    IF fault = "iterdir" \/ csv_output # "dir" THEN ScanRaised
    ELSE ScanLoop(order, << >>, fault)

\* the versions of the previous answer kept and served again
Scan_cached(order, fault) ==
    IF seen.polled THEN ScanResult(seen.versions)
    ELSE IF exists(csv_output) /\ is_dir(csv_output)
    THEN IF fault = "iterdir" THEN ScanRaised ELSE ScanLoop(order, << >>, fault)
    ELSE ScanResult(<< >>)

Scan(order, fault) ==
    IF exists(csv_output) /\ is_dir(csv_output)
    THEN IF fault = "iterdir" THEN ScanRaised ELSE ScanLoop(order, << >>, fault)
    ELSE ScanResult(<< >>)

VersionsJson(versions) ==
    [kind |-> "json", versions |-> versions, count |-> Len(versions),
     base_path |-> << "/csv_output" >>]

handle_versions_api(h, order, fault) ==
    LET scanned == Scan(order, fault)
        tried   == IF scanned.raised THEN raise(h, "PermissionError")
                   ELSE write(
                            end_headers(
                                send_header(send_response(h, 200, "OK"),
                                            "Content-Type", "application/json")),
                            VersionsJson(sort(scanned.versions)))
    IN  IF tried.exc # "none"
        THEN send_error([tried EXCEPT !.caught = tried.exc, !.exc = "none"],
                        500, "Error detecting versions")
        ELSE tried

-----------------------------------------------------------------------------
(* SimpleHTTPRequestHandler.do_GET, reached through super().do_GET()       *)

CsvOutputBytes == << 4 >>

QueryPieces == { "?x=1" }

\* drop the query: the filesystem path the URL path names
translate_path(path) == SelectSeq(path, LAMBDA piece : piece \notin QueryPieces)

\* kind and bytes of the node a filesystem path names
Node(fspath) ==
    IF fspath = << "/api", "/versions" >>
    THEN [kind |-> IF static["api/versions"] = NoFile THEN "absent" ELSE "file",
          bytes |-> static["api/versions"]]
    ELSE IF fspath = << "/csv_output" >>
    THEN [kind |-> csv_output,
          bytes |-> IF csv_output = "file" THEN CsvOutputBytes ELSE NoFile]
    ELSE [kind |-> "absent", bytes |-> NoFile]

FileBody(bytes) == [kind |-> "file", bytes |-> bytes]

super_do_GET(h) ==
    LET node == Node(translate_path(h.path)) IN
    IF node.kind = "dir"
    THEN end_headers(
             send_header(
                 send_header(send_response(h, 301, "Moved Permanently"),
                             "Location", "path/"),
                 "Content-Length", "0"))
    ELSE IF node.kind = "absent"
    THEN send_error(h, 404, "File not found")
    ELSE write(
             end_headers(
                 send_header(
                     send_header(
                         send_header(send_response(h, 200, "OK"),
                                     "Content-type", "guess_type(path)"),
                         "Content-Length", ToString(Len(node.bytes))),
                     "Last-Modified", "mtime")),
             FileBody(node.bytes))

\* the route matched as a prefix of the path
do_GET_prefix(h, order, fault) ==
    IF Contains(h.path, API_PATH)
    THEN handle_versions_api(h, order, fault)
    ELSE super_do_GET(h)

do_GET(h, order, fault) ==
    IF h.path = API_PATH
    THEN handle_versions_api(h, order, fault)
    ELSE super_do_GET(h)

-----------------------------------------------------------------------------
(* socketserver.TCPServer.serve_forever                                    *)

\* BaseServer._handle_request_noblock catches Exception from the handler,
\* reports it through handle_error and goes on with the next request
\* an exception of the handler left to end the loop
serve_forever_unguarded(exc) == exc = "none"

serve_forever(exc) == TRUE

Never == [polled |-> FALSE, versions |-> << >>]

Versions200(h) ==
    /\ h.path = API_PATH
    /\ Len(h.wire) > 0
    /\ h.wire[1].code = 200
    /\ h.wire[Len(h.wire)].t = "body"

VersionsOf(h) == h.wire[Len(h.wire)].v.versions

Init ==
    /\ csv_output = "absent"
    /\ children = [n \in Names |-> "absent"]
    /\ required = [n \in Names |-> [f \in RequiredNames |-> "absent"]]
    /\ static = [f \in StaticFiles |-> NoFile]
    /\ serving = TRUE
    /\ exchange = Idle
    /\ seen = Never

\* one connection: accept, construct the handler, run do_GET, close.
\* `order` is the order iterdir() yields the entries in, `fault` the
\* filesystem call of the scan that raises, if any
Get(path, order, fault) ==
    /\ serving
    /\ LET h == do_GET(NewHandler(path), order, fault) IN
       /\ exchange' = h
       /\ serving' = serve_forever(h.exc)
    /\ UNCHANGED <<csv_output, children, required, static, seen>>

GetVersions == \E fault \in Faults : \E order \in Orders(Entries) : Get(API_PATH, order, fault)

GetStatic == \E path \in Paths \ {API_PATH} : Get(path, << >>, "none")

(* The environment: the dataset pipeline and the developer change the tree *)

\* the request just served is over; the client keeps the versions it got
Over ==
    /\ exchange' = Idle
    /\ seen' = IF Versions200(exchange)
               THEN [polled |-> TRUE, versions |-> VersionsOf(exchange)]
               ELSE seen

SetCsvOutput(kind) ==
    /\ kind # csv_output
    /\ csv_output' = kind
    /\ children' = [n \in Names |-> "absent"]
    /\ required' = [n \in Names |-> [f \in RequiredNames |-> "absent"]]
    /\ Over
    /\ UNCHANGED <<static, serving>>

SetChild(name, kind) ==
    /\ csv_output = "dir"
    /\ kind # children[name]
    /\ children' = [children EXCEPT ![name] = kind]
    /\ required' = [required EXCEPT ![name] = [f \in RequiredNames |-> "absent"]]
    /\ Over
    /\ UNCHANGED <<csv_output, static, serving>>

SetRequired(name, file, kind) ==
    /\ children[name] = "dir"
    /\ kind # required[name][file]
    /\ required' = [required EXCEPT ![name][file] = kind]
    /\ Over
    /\ UNCHANGED <<csv_output, children, static, serving>>

WriteStatic(file, bytes) ==
    /\ bytes # static[file]
    /\ static' = [static EXCEPT ![file] = bytes]
    /\ Over
    /\ UNCHANGED <<csv_output, children, required, serving>>

Next ==
    \/ GetVersions
    \/ GetStatic
    \/ \E kind \in Kinds : SetCsvOutput(kind)
    \/ \E name \in TreeNames, kind \in Kinds : SetChild(name, kind)
    \/ \E name \in TreeNames, file \in RequiredNames, kind \in Kinds :
           SetRequired(name, file, kind)
    \/ \E file \in StaticFiles, bytes \in Contents \cup {NoFile} : WriteStatic(file, bytes)

Spec == Init /\ [][Next]_vars

(* The scan alone: the server started on a tree whose csv_output holds any *)
(* of the names as a complete dataset, a stray file or nothing, and polled *)

InitScan ==
    /\ csv_output = "dir"
    /\ children \in [Names -> Kinds]
    /\ required = [n \in Names |->
                      [f \in RequiredNames |-> IF children[n] = "dir" THEN "file" ELSE "absent"]]
    /\ static = [f \in StaticFiles |-> NoFile]
    /\ serving = TRUE
    /\ exchange = Idle
    /\ seen = Never

NextScan == GetVersions

ScanSpec == InitScan /\ [][NextScan]_vars

-----------------------------------------------------------------------------
(* What the client of the request just served observes                     *)

Sent(h) == Len(h.wire) > 0

Status(h) == IF Sent(h) THEN h.wire[1].code ELSE 0

\* position of the blank line that ends the header block, 0 if none
BlankAt(h) ==
    IF \E i \in 1..Len(h.wire) : h.wire[i].t = "blank"
    THEN CHOOSE i \in 1..Len(h.wire) :
             /\ h.wire[i].t = "blank"
             /\ \A j \in 1..(i - 1) : h.wire[j].t # "blank"
    ELSE 0

\* how many times the header block carries the header k: v
HeaderCount(h, k, v) ==
    Cardinality({ i \in 1..BlankAt(h) : h.wire[i] = Header(k, v) })

BodyOf(h) == h.wire[Len(h.wire)].v

HasBody(h) == Sent(h) /\ h.wire[Len(h.wire)].t = "body"

\* a request that did not end in a 2xx or 3xx answer
Failed(h) == h # Idle /\ (h.exc # "none" \/ h.caught # "none" \/ Status(h) \notin 200..399)

\* the node the path of the request just served names
Target == Node(translate_path(exchange.path))

\* a precedes b in code point order, stated without recursion
Precedes(a, b) ==
    \E k \in 1..(Len(b)) :
        /\ \A i \in 1..(k - 1) : i <= Len(a) /\ a[i] = b[i]
        /\ (k > Len(a) \/ (k <= Len(a) /\ a[k] < b[k]))

\* the children that hold every required name as a regular file
FileQualified ==
    { n \in Names : /\ children[n] = "dir"
                    /\ n[1] # 46
                    /\ \A f \in RequiredNames : required[n][f] = "file" }

\* the children that hold every required name as an entry of any kind
EntryQualified ==
    { n \in Names : /\ children[n] = "dir"
                    /\ n[1] # 46
                    /\ \A f \in RequiredNames : required[n][f] # "absent" }

Range(s) == { s[i] : i \in 1..Len(s) }

-----------------------------------------------------------------------------
(* C1: every response that reaches the client starts with its status line, *)
(* carries each of the three CORS headers exactly once inside the header   *)
(* block, that is before the blank line that ends it, leaves no header     *)
(* unsent, and its body, if any, comes after the header block.             *)
C1_CorsOnEveryResponse ==
    Sent(exchange) =>
        /\ exchange.wire[1].t = "status"
        /\ BlankAt(exchange) > 1
        /\ HeaderCount(exchange, "Access-Control-Allow-Origin", "*") = 1
        /\ HeaderCount(exchange, "Access-Control-Allow-Methods", "GET, POST, OPTIONS") = 1
        /\ HeaderCount(exchange, "Access-Control-Allow-Headers", "Content-Type") = 1
        /\ exchange.buffer = << >>
        /\ \A i \in 1..Len(exchange.wire) :
               /\ (exchange.wire[i].t = "status") = (i = 1)
               /\ (exchange.wire[i].t = "header") = (1 < i /\ i < BlankAt(exchange))
               /\ (exchange.wire[i].t = "body") => i = Len(exchange.wire)

C1_Witness ==
    /\ exchange.path = << "/api", "/versions", "?x=1" >>
    /\ Status(exchange) = 200
    /\ HeaderCount(exchange, "Access-Control-Allow-Origin", "*") = 1
    /\ BodyOf(exchange) = FileBody(<< 2, 3 >>)

(* C2: when csv_output is a directory and no filesystem call raises, GET   *)
(* /api/versions answers 200 and lists exactly the non-hidden child        *)
(* directories that hold both required names as files, with count their    *)
(* number and base_path "/csv_output".                                     *)
C2_ListsFileQualified ==
    (exchange.path = API_PATH /\ csv_output = "dir" /\ exchange.caught = "none") =>
        /\ Versions200(exchange)
        /\ Range(VersionsOf(exchange)) = FileQualified
        /\ BodyOf(exchange).count = Cardinality(FileQualified)
        /\ BodyOf(exchange).base_path = << "/csv_output" >>

(* C3: a GET of a static path that names nothing under the Server Root is  *)
(* answered with 404.                                                      *)
C3_Missing404 ==
    (exchange # Idle /\ exchange.path # API_PATH /\ Target.kind = "absent") =>
        Status(exchange) = 404

(* C4: when a filesystem call of the version scan raises, the client gets  *)
(* a 500 response with a message body, and no 200 status is sent.          *)
C4_ScanFailure500 ==
    (exchange.path = API_PATH /\ exchange.caught # "none") =>
        /\ Status(exchange) = 500
        /\ HasBody(exchange)
        /\ \A i \in 1..Len(exchange.wire) : exchange.wire[i].code # 200

(* C5: when csv_output is absent or is not a directory, GET /api/versions  *)
(* answers 200 with versions [], count 0 and base_path "/csv_output".      *)
C5_NoDirectoryEmpty200 ==
    (exchange.path = API_PATH /\ csv_output # "dir") =>
        /\ Status(exchange) = 200
        /\ HasBody(exchange)
        /\ BodyOf(exchange) = VersionsJson(<< >>)
        /\ BodyOf(exchange).count = 0

C5_Witness ==
    /\ exchange.path = API_PATH
    /\ csv_output = "file"
    /\ Status(exchange) = 200
    /\ BodyOf(exchange).versions = << >>

(* C6: the versions of every 200 answer of /api/versions are in strictly   *)
(* ascending code point order, so no name occurs twice.                    *)
C6_Ascending ==
    Versions200(exchange) =>
        \A i, j \in 1..Len(VersionsOf(exchange)) :
            i < j => Precedes(VersionsOf(exchange)[i], VersionsOf(exchange)[j])

C6_Witness ==
    /\ Versions200(exchange)
    /\ VersionsOf(exchange) = << << 66 >>, << 97 >>, << 97, 66 >>, << 97, 98 >> >>

(* C7: a 200 answer of /api/versions lists exactly the children that       *)
(* qualify in the tree as it is at that request, whatever the client was   *)
(* told before.                                                            *)
C7_ReadThrough ==
    Versions200(exchange) =>
        /\ Range(VersionsOf(exchange)) = EntryQualified
        /\ Len(VersionsOf(exchange)) = Cardinality(EntryQualified)
        /\ BodyOf(exchange).count = Cardinality(EntryQualified)

\* the client was told one list, the tree changed, and the next answer
\* has a name the earlier one had not and lacks a name it had
C7_Witness ==
    /\ Versions200(exchange)
    /\ seen.polled
    /\ Range(VersionsOf(exchange)) \ Range(seen.versions) # {}
    /\ Range(seen.versions) \ Range(VersionsOf(exchange)) # {}

C9_EveryFileServed ==
    (exchange # Idle /\ Target.kind = "file") =>
        /\ Status(exchange) = 200
        /\ HasBody(exchange)
        /\ BodyOf(exchange) = FileBody(Target.bytes)

(* C9 as amended: a GET whose path is not the route /api/versions and      *)
(* names an existing file is answered 200 with the bytes of that file; a   *)
(* GET of /api/versions is never answered with the bytes of a file.        *)
C9_FileServedUnlessRoute ==
    /\ (exchange # Idle /\ exchange.path # API_PATH /\ Target.kind = "file") =>
           /\ Status(exchange) = 200
           /\ HasBody(exchange)
           /\ BodyOf(exchange) = FileBody(Target.bytes)
           /\ HeaderCount(exchange, "Content-Length", ToString(Len(Target.bytes))) = 1
    /\ (exchange.path = API_PATH /\ HasBody(exchange)) => BodyOf(exchange).kind # "file"

C9_Witness ==
    /\ exchange.path = << "/api", "/versions", "?x=1" >>
    /\ static["api/versions"] = << 2, 3 >>
    /\ Status(exchange) = 200
    /\ BodyOf(exchange) = FileBody(<< 2, 3 >>)

(* C10: a request is logged exactly when its path is not the route         *)
(* /api/versions, and log_message never raises.                            *)
C10_LogExactlyOtherRoutes ==
    exchange # Idle =>
        /\ (exchange.path = API_PATH) = (exchange.log = << >>)
        /\ exchange.exc # "TypeError"

====
